---------------------------- MODULE Spec2Model ----------------------------
(* The acquisition core of reel: the library state machine kept by the     *)
(* Manager (internal/core/manager.go) over the MediaRepository             *)
(* (internal/database/sqlite.go), the search queue and its worker, and the *)
(* scheduler jobs.  Every repository call is atomic; a routine that reads  *)
(* a list and then walks it keeps the list it read (a snapshot), and the   *)
(* other routines run between its turns.                                   *)
EXTENDS Integers, Sequences, FiniteSets, TLC

----------------------------------------------------------------------------
(* Bounds of the model *)

\* media rows the library may hold (ids 1..MaxMedia)
MaxMedia == 2
\* show aggregates (rows of tv_shows) the library may hold
MaxShows == 1
\* episode numbers of the one season a show has in the model (1..MaxEpisodes)
MaxEpisodes == 2
\* capacity of the search queue channel; the source makes it 100
\* (make(chan models.Media, 100)), the model scales it down
QueueCap == 2
\* largest automation.max_concurrent_downloads the model configures
MaxConcurrent == 2
\* scheduler jobs that may be running at the same instant
MaxRunningJobs == 1
\* items a feed delivers in one RSS sweep
MaxFeedItems == 1
\* media rows of the library whose whole life cycle is followed (Spec); the
\* queue is followed over a library of MaxMedia rows (SpecQueue)
MaxFollowed == 1
\* the movies a user may ask for, told apart by title; TMDB knows each
MaxTitles == 1
\* automation.min_seeders runs over 0..MaxMinSeeders
MaxMinSeeders == 1
\* an indexer answers with at most MaxCandidates results
MaxCandidates == 3
\* a result has 0..MaxSeeders seeders
MaxSeeders == 1
\* sort.Slice sorts a slice of at most InsertionSortLen elements by insertion
\* (12 in the Go runtime, scaled down with MaxCandidates)
InsertionSortLen == 2
\* a release title read by the episode stage has at most MaxTagLen characters
MaxTagLen == 5
\* seasons and episodes asked for are numbered 1..MaxNumber
MaxNumber == 1
\* a search term has 1..MaxTermLen characters, a call has 1..MaxTerms terms
MaxTermLen == 2
MaxTerms == 2
\* a release title read by the series-name stage has at most MaxNameLen
\* characters
MaxNameLen == 3
\* a move_method list has at most MaxMethods entries, a download at most
\* MaxFiles media files
MaxMethods == 2
MaxFiles == 2
\* a media title handed to the post-processor has at most MaxPathLen
\* characters
MaxPathLen == 3
\* the ticker of waitForFile fires WaitTicks times up to the deadline (60 in
\* the program), and the path is looked at by the world TickEvery times per
\* tick
WaitTicks == 5
TickEvery == 2
\* a call whose drop counters are followed has at most MaxCounted results
MaxCounted == 2

MediaIds == 1..MaxMedia
ShowIds == 1..MaxShows
Titles == 1..MaxTitles
Eps == 1..MaxEpisodes

ShowTypes == {"tvshow", "anime"}
MediaTypes == {"movie"} \cup ShowTypes

\* An info-hash names the release it is the hash of: the release of episode e
\* of media id is <<id, e>>, the release of movie id is <<id, 0>>
Hashes == MediaIds \X (0..MaxEpisodes)
NoHash == <<0, 0>>

VARIABLES
  cfg,        \* the configuration, loaded once
  media,      \* table media: id -> row
  shows,      \* tables tv_shows/seasons/episodes: show id -> aggregate
  torrents,   \* the download client: hash -> absent | active | complete
  queue,      \* Manager.searchQueue
  crashed,    \* the process died of an unrecovered panic
  wpc,        \* queue worker: idle | movie | show
  wItem,      \* queue worker: the media value it received
  wTodo,      \* queue worker: the pending episodes of the show as it loaded
              \* it which the loop has not reached yet
  wStarted,   \* queue worker: downloadsStarted
  trItems,    \* updateDownloadStatus: media values still to poll
  ceItems,    \* checkForNewEpisodes: media values still to refresh
  ppItems,    \* processPendingMedia: media values still to enqueue
  rfItems,    \* retryFailedDownloads: media values still to retry
  rfPc,       \* retryFailedDownloads: update | send
  clItems,    \* cleanupCompletedTorrents: media values still to examine
  rssMedia,   \* matchFeedItems: the media it read
  rssLeft,    \* matchFeedItems: feed items still to match
  rmItem,     \* RetryMedia: the media value a call holds between its status
              \* write and its send
  down,       \* main: up | stopping (Manager.Stop has returned) | exited
  call        \* a call of a routine that writes no row: its arguments and
              \* what it has computed so far

vars == <<cfg, media, shows, torrents, queue, crashed, wpc, wItem, wTodo,
          wStarted, trItems, ceItems, ppItems, rfItems, rfPc, clItems,
          rssMedia, rssLeft, rmItem, down, call>>

workerVars == <<wpc, wItem, wTodo, wStarted>>
jobVars == <<trItems, ceItems, ppItems, rfItems, rfPc, clItems, rssMedia, rssLeft>>

----------------------------------------------------------------------------
(* The repository *)

\* title: the (title, year) of the row; 0 stands for a title no other row has;
\* tmdb: the tmdb_id column, 0 for NULL
NoMedia == [type |-> "none", status |-> "none", hash |-> NoHash, prog |-> <<0, 1>>,
            done |-> FALSE, auto |-> FALSE, show |-> 0, title |-> 0, tmdb |-> 0]

\* eps: the status of episode e of season 1 ("none": no row); rows: how many
\* rows of table episodes carry that number
NoShow == [status |-> "none", eps |-> [e \in Eps |-> "none"],
           rows |-> [e \in Eps |-> 0]]

\* the ids of S, highest first: ORDER BY added_at DESC
RECURSIVE IdsDesc(_)
IdsDesc(S) ==
  IF S = {} THEN <<>>
  ELSE LET top == CHOOSE x \in S : \A y \in S : y <= x
       IN <<top>> \o IdsDesc(S \ {top})

\* a deleted row: gone for every query, its AUTOINCREMENT id never given again
DeletedMedia == [NoMedia EXCEPT !.status = "deleted"]

Exists(md, id) == md[id].type # "none"

\* DELETE FROM media WHERE id = ?
Delete(md, id) == IF md[id].type # "none" THEN [md EXCEPT ![id] = DeletedMedia] ELSE md

GetByStatus(md, s) ==
  LET ids == IdsDesc({id \in MediaIds : Exists(md, id) /\ md[id].status = s})
  IN [i \in 1..Len(ids) |-> [id |-> ids[i]] @@ md[ids[i]]]

GetAll(md) ==
  LET ids == IdsDesc({id \in MediaIds : Exists(md, id)})
  IN [i \in 1..Len(ids) |-> [id |-> ids[i]] @@ md[ids[i]]]

UpdateStatus(md, id, s) ==
  IF Exists(md, id) THEN [md EXCEPT ![id].status = s] ELSE md

UpdateDownloadInfo(md, id, s, h) ==
  IF Exists(md, id) THEN [md EXCEPT ![id].status = s, ![id].hash = h] ELSE md

\* completedAt says whether the pointer is non-nil; nil is written as NULL
UpdateProgress(md, id, s, p, completedAt) ==
  IF Exists(md, id)
  THEN [md EXCEPT ![id].status = s, ![id].prog = p, ![id].done = completedAt]
  ELSE md

\* FALSE: no media row or a NULL tv_show_id, the (nil, nil) result
HasShow(md, id) == Exists(md, id) /\ md[id].show # 0

GetTVShowByMediaID(md, sh, id) ==
  IF HasShow(md, id) THEN sh[md[id].show] ELSE NoShow

\* the row of season 1 exists once the show has an episode
SeasonExists(show) == \E e \in Eps : show.eps[e] # "none"

\* an error, and nothing written, without tv_show_id or without the season;
\* the episode row is updated when it exists; with a hash the media row too
UpdateEpisodeDownloadInfo(md, sh, id, e, s, h) ==
  IF ~HasShow(md, id) \/ ~SeasonExists(GetTVShowByMediaID(md, sh, id)) THEN <<md, sh>>
  ELSE LET sid == md[id].show
           sh2 == IF sh[sid].eps[e] # "none"
                  THEN [sh EXCEPT ![sid].eps[e] = s] ELSE sh
           md2 == IF h # NoHash
                  THEN [md EXCEPT ![id].hash = h, ![id].status = "downloading"]
                  ELSE md
       IN <<md2, sh2>>

----------------------------------------------------------------------------
(* The Manager's helpers *)

Count(eps, S) == Cardinality({e \in Eps : eps[e] \in S})

RECURSIVE GCD(_, _)
GCD(a, b) == IF b = 0 THEN a ELSE GCD(b, a % b)

\* the float64 n / d, kept as the fraction in lowest terms
Frac(n, d) == <<n \div GCD(n, d), d \div GCD(n, d)>>

updateShowProgress(md, sh, id) ==
  IF ~HasShow(md, id) THEN md
  ELSE LET show == GetTVShowByMediaID(md, sh, id)
           eps == show.eps
           downloadable == Count(eps, {"pending", "downloading", "downloaded"})
           downloaded == Count(eps, {"downloaded"})
           pendingEpisodes == Count(eps, {"pending", "downloading"})
           tbaEpisodes == Count(eps, {"tba"})
           progress == IF downloadable > 0 THEN Frac(downloaded, downloadable)
                       ELSE <<0, 1>>
           newStatus == IF pendingEpisodes = 0
                        THEN IF tbaEpisodes > 0 \/ show.status = "running"
                             THEN "monitoring" ELSE "downloaded"
                        ELSE "downloading"
       IN UpdateProgress(md, id, newStatus, progress, FALSE)

\* AddTorrent / AddTorrentFile of release h: the client holds it afterwards
AddTorrent(tr, h) == IF tr[h] = "absent" THEN [tr EXCEPT ![h] = "active"] ELSE tr

\* the state left by StartEpisodeDownload(id, 1, e, torrent); "added" says
\* whether the download client accepted the torrent
StartEpisodeDownload(md, sh, tr, id, e, added) ==
  IF ~Exists(md, id) \/ md[id].type \notin ShowTypes \/ ~added
  THEN [md |-> md, sh |-> sh, tr |-> tr]
  ELSE LET upd == UpdateEpisodeDownloadInfo(md, sh, id, e, "downloading", <<id, e>>)
       IN [md |-> upd[1], sh |-> upd[2], tr |-> AddTorrent(tr, <<id, e>>)]

\* the torrent handed to the download client and nothing written back
AddWithoutRecord(md, tr, id, added) ==
  [md |-> md, tr |-> IF Exists(md, id) /\ added THEN AddTorrent(tr, <<id, 0>>) ELSE tr]

\* the state left by StartDownload(id, torrent)
StartDownload(md, tr, id, added) ==
  IF ~Exists(md, id) THEN [md |-> md, tr |-> tr]
  ELSE IF ~added THEN [md |-> UpdateStatus(md, id, "failed"), tr |-> tr]
  ELSE [md |-> UpdateDownloadInfo(md, id, "downloading", <<id, 0>>),
        tr |-> AddTorrent(tr, <<id, 0>>)]

\* a non-blocking send: select { case m.searchQueue <- v: ... default: ... }
TrySend(q, v) == IF Len(q) < QueueCap THEN Append(q, v) ELSE q

\* a plain send m.searchQueue <- v proceeds only while the channel has room
CanSend(q) == Len(q) < QueueCap

QueueItem(id, type) == [id |-> id, type |-> type]

----------------------------------------------------------------------------
(* Initial state: NewManager on an empty library *)

ProviderConfigs == {{}, ShowTypes}

\* no call of a selector or post-processor routine is followed
NoCall == [fn |-> "none"]

\* configurations with a metadata provider for movies
MovieProviderConfigs == {{}, {"movie"}, MediaTypes}

InitState ==
  /\ media = [id \in MediaIds |-> NoMedia]
  /\ shows = [s \in ShowIds |-> NoShow]
  /\ torrents = [h \in Hashes |-> "absent"]
  /\ queue = <<>>
  /\ crashed = FALSE
  /\ wpc = "idle"
  /\ wItem = QueueItem(0, "none")
  /\ wTodo = {}
  /\ wStarted = 0
  /\ trItems = <<>>
  /\ ceItems = <<>>
  /\ ppItems = <<>>
  /\ rfItems = <<>>
  /\ rfPc = "update"
  /\ clItems = <<>>
  /\ rssMedia = {}
  /\ rssLeft = 0
  /\ rmItem = QueueItem(0, "none")
  /\ down = "up"
  /\ call = NoCall

\* keepDays, keepRatio: is the threshold enabled (> 0)
Init ==
  /\ cfg \in [providers : ProviderConfigs, maxConcurrent : 1..MaxConcurrent,
              keepDays : {TRUE}, keepRatio : {TRUE}, minSeeders : {0}]
  /\ InitState

InitMovies ==
  /\ cfg \in [providers : MovieProviderConfigs, maxConcurrent : 1..MaxConcurrent,
              keepDays : {TRUE}, keepRatio : {TRUE}, minSeeders : {0}]
  /\ InitState

\* configurations with and without a seeder threshold
InitSeeders ==
  /\ cfg \in [providers : ProviderConfigs, maxConcurrent : 1..MaxConcurrent,
              keepDays : {TRUE}, keepRatio : {TRUE}, minSeeders : 0..MaxMinSeeders]
  /\ InitState

----------------------------------------------------------------------------
(* AddMedia *)

\* a status that asks for the air date before the start episode
SkeletonAirFirst(air, e, startEpisode) ==
  IF air[e] = "none" THEN "none"
  ELSE IF air[e] = "future" THEN "tba"
  ELSE IF e < startEpisode THEN "skipped"
  ELSE "pending"

\* the status AddMedia gives episode e: "none" when upstream lists no such episode
SkeletonStatus(air, e, startEpisode) ==
  IF air[e] = "none" THEN "none"
  ELSE IF e < startEpisode THEN "skipped"
  ELSE IF air[e] = "future" THEN "tba"
  ELSE "pending"

FirstFree(S) == CHOOSE x \in S : \A y \in S : x <= y

\* the id TMDB gives the movie of this title
TmdbOf(title) == title

\* idx_media_tvshow_title_year: WHERE type = 'tvshow'
TitleIndexTypes == {"tvshow"}

\* idx_media_movie_tmdb: a movie row with this tmdb_id is there already;
\* idx_media_tvshow_title_year: a row of the type with this (title, year) is
DuplicateKey(md, type, title, tmdb) ==
  \/ /\ type = "movie"
     /\ tmdb # 0
     /\ \E i \in MediaIds : md[i].type = "movie" /\ md[i].tmdb = tmdb
  \/ /\ type \in TitleIndexTypes
     /\ title # 0
     /\ \E i \in MediaIds : md[i].type = type /\ md[i].title = title

\* title: the (title, year) the request names; the tmdb_id stored is the first
\* result of the provider's search by title. The rows of the show are written
\* before the media row is
\* CreateEpisode for each entry of the upstream listing; twice: the episode
\* numbers the listing holds two entries of
ListedRows(air, twice) ==
  [e \in Eps |-> IF air[e] = "none" THEN 0 ELSE IF e \in twice THEN 2 ELSE 1]

AddMedia(type, title, auto, lookup, upstream, air, twice, startEpisode) ==
  /\ ~crashed
  /\ \E id \in MediaIds : media[id] = NoMedia
  /\ LET id == FirstFree({i \in MediaIds : media[i] = NoMedia})
         metadataID == IF type = "movie" /\ type \in cfg.providers /\ lookup = "found"
                       THEN TmdbOf(title) ELSE 0
         tvShowData == type \in ShowTypes /\ type \in cfg.providers /\ lookup = "found"
         free == {s \in ShowIds : shows[s].status = "none"}
         tvShowID == IF tvShowData THEN FirstFree(free) ELSE 0
         row == [type |-> type, status |-> "pending", hash |-> NoHash,
                 prog |-> <<0, 1>>, done |-> FALSE, auto |-> auto, show |-> tvShowID,
                 title |-> title, tmdb |-> metadataID]
     IN /\ tvShowData => free # {}
        /\ shows' = IF tvShowData
                    THEN [shows EXCEPT ![tvShowID] =
                            [status |-> upstream,
                             eps |-> [e \in Eps |-> SkeletonStatus(air, e, startEpisode)],
                             rows |-> ListedRows(air, twice)]]
                    ELSE shows
        /\ IF DuplicateKey(media, type, title, metadataID)
           THEN \* Create fails: "UNIQUE constraint failed", 409 to the caller
                UNCHANGED <<media, queue>>
           ELSE /\ media' = [media EXCEPT ![id] = row]
                /\ queue' = IF auto THEN TrySend(queue, QueueItem(id, type)) ELSE queue
  /\ UNCHANGED <<cfg, torrents, crashed, workerVars, jobVars, rmItem, down, call>>

----------------------------------------------------------------------------
(* The search queue worker: startSearchQueueWorker *)

\* the value sent last: what a stack, not a channel, would deliver
QueueBack(q) == q[Len(q)]

\* for media := range m.searchQueue: the value received and what stays queued
QueueFront(q) == Head(q)
QueueRest(q) == Tail(q)

\* the worker receives only between two acquisition routines
WorkerReady == wpc = "idle"

\* every episode the show lists, whatever its status
ListedEpisodes(eps) == {e \in Eps : eps[e] # "none"}

PendingEpisodes(eps) == {e \in Eps : eps[e] = "pending"}

WorkerReturn ==
  /\ wpc' = "idle"
  /\ wTodo' = {}
  /\ wStarted' = 0

\* receive one value and make the routine's first repository call
WorkerTake ==
  /\ ~crashed
  /\ WorkerReady
  /\ queue # <<>>
  /\ LET item == QueueFront(queue)
     IN /\ queue' = QueueRest(queue)
        /\ wItem' = item
        /\ IF item.type = "movie"
           THEN /\ media' = UpdateStatus(media, item.id, "searching")
                /\ wpc' = "movie"
                /\ UNCHANGED <<crashed, wTodo, wStarted>>
           ELSE IF ~HasShow(media, item.id)
           THEN \* show is nil: show.Seasons panics in the worker goroutine
                /\ crashed' = TRUE
                /\ UNCHANGED <<media, wpc, wTodo, wStarted>>
           ELSE /\ wTodo' = PendingEpisodes(GetTVShowByMediaID(media, shows, item.id).eps)
                /\ wStarted' = 0
                /\ wpc' = "show"
                /\ UNCHANGED <<media, crashed>>
  /\ UNCHANGED <<cfg, shows, torrents, jobVars, rmItem, down, call>>

\* searchAndDownloadMovie after the status write: search, select, StartDownload
WorkerMovie(outcome) ==
  /\ ~crashed
  /\ wpc = "movie"
  /\ IF outcome = "none"
     THEN /\ media' = UpdateStatus(media, wItem.id, "failed")
          /\ UNCHANGED torrents
     ELSE LET r == StartDownload(media, torrents, wItem.id, outcome = "added")
          IN /\ media' = r.md
             /\ torrents' = r.tr
  /\ WorkerReturn
  /\ UNCHANGED <<cfg, shows, queue, crashed, wItem, jobVars, rmItem, down, call>>

\* searchAndDownloadNextEpisode: one turn of the loop that reaches a pending
\* episode of the snapshot, or the return
WorkerEpisode(outcome) ==
  /\ ~crashed
  /\ wpc = "show"
  /\ IF wStarted >= cfg.maxConcurrent \/ wTodo = {}
     THEN /\ WorkerReturn
          /\ UNCHANGED <<media, shows, torrents>>
     ELSE LET e == FirstFree(wTodo)
          IN /\ wTodo' = wTodo \ {e}
             /\ UNCHANGED wpc
             /\ IF outcome = "none"
                THEN UNCHANGED <<media, shows, torrents, wStarted>>
                ELSE LET r == StartEpisodeDownload(media, shows, torrents,
                                                   wItem.id, e, outcome = "added")
                     IN /\ media' = r.md
                        /\ shows' = r.sh
                        /\ torrents' = r.tr
                        /\ wStarted' = wStarted + 1
  /\ UNCHANGED <<cfg, queue, crashed, wItem, jobVars, rmItem, down, call>>

----------------------------------------------------------------------------
(* The scheduler: cron starts each job in a goroutine of its own *)

RunningJobs ==
  Cardinality({j \in {"tracker", "check", "pending", "retry", "cleanup", "rss"} :
     \/ j = "tracker" /\ trItems # <<>>
     \/ j = "check" /\ ceItems # <<>>
     \/ j = "pending" /\ ppItems # <<>>
     \/ j = "retry" /\ rfItems # <<>>
     \/ j = "cleanup" /\ clItems # <<>>
     \/ j = "rss" /\ rssLeft > 0})

\* cron starts no job once Stop has been called
CanStartJob == ~crashed /\ down = "up" /\ RunningJobs < MaxRunningJobs

----------------------------------------------------------------------------
(* The download client *)

TorrentCompletes(h) ==
  /\ ~crashed
  /\ torrents[h] = "active"
  /\ torrents' = [torrents EXCEPT ![h] = "complete"]
  /\ UNCHANGED <<cfg, media, shows, queue, crashed, workerVars, jobVars, rmItem, down, call>>

\* status.Progress of a torrent that is not completed
PartialProgress == <<1, 2>>

----------------------------------------------------------------------------
(* updateDownloadStatus, every 10 s *)

TrackerItem(row) == [id |-> row.id, type |-> row.type, hash |-> row.hash]

TrackerStart ==
  /\ CanStartJob
  /\ trItems = <<>>
  /\ LET rows == GetByStatus(media, "downloading")
     IN trItems' = [i \in 1..Len(rows) |-> TrackerItem(rows[i])]
  /\ UNCHANGED <<cfg, media, shows, torrents, queue, crashed, workerVars,
                 ceItems, ppItems, rfItems, rfPc, clItems, rssMedia, rssLeft, rmItem, down, call>>

Downloading(eps) == {e \in Eps : eps[e] = "downloading"}

\* the first episode in (season, episode) order whose status is downloading
FirstDownloading(eps) == FirstFree(Downloading(eps))

\* the rows left by the completion branch for a show or anime
TrackerShowCompleted(md, sh, id) ==
  LET eps == GetTVShowByMediaID(md, sh, id).eps
      upd == IF Downloading(eps) # {}
             THEN UpdateEpisodeDownloadInfo(md, sh, id, FirstDownloading(eps),
                                            "downloaded", NoHash)
             ELSE <<md, sh>>
  IN <<updateShowProgress(upd[1], upd[2], id), upd[2]>>

\* the rows and the job after one turn of the loop over the media read by
\* TrackerStart
TrackerRows(pollOk) ==
  /\ ~crashed
  /\ trItems # <<>>
  /\ LET item == Head(trItems)
     IN /\ trItems' = Tail(trItems)
        /\ (pollOk /\ item.hash # NoHash) => torrents[item.hash] # "absent"
        /\ IF item.hash = NoHash
           THEN UNCHANGED <<media, shows, crashed>>
           ELSE IF ~pollOk
           THEN /\ media' = UpdateStatus(media, item.id, "failed")
                /\ UNCHANGED <<shows, crashed>>
           ELSE IF torrents[item.hash] # "complete"
           THEN /\ media' = UpdateProgress(media, item.id, "downloading",
                                           PartialProgress, FALSE)
                /\ UNCHANGED <<shows, crashed>>
           ELSE IF item.type = "movie"
           THEN /\ media' = UpdateProgress(media, item.id, "downloaded", <<1, 1>>, TRUE)
                /\ UNCHANGED <<shows, crashed>>
           ELSE IF ~HasShow(media, item.id)
           THEN \* show is nil and err is nil: show.Seasons panics
                /\ crashed' = TRUE
                /\ UNCHANGED <<media, shows>>
           ELSE LET upd == TrackerShowCompleted(media, shows, item.id)
                IN /\ media' = upd[1]
                   /\ shows' = upd[2]
                   /\ UNCHANGED crashed
  /\ UNCHANGED <<cfg, torrents, queue, workerVars,
                 ceItems, ppItems, rfItems, rfPc, clItems, rssMedia, rssLeft, rmItem, down>>

\* one turn of the loop, the goroutines it starts left aside
TrackerPoll(pollOk) == TrackerRows(pollOk) /\ UNCHANGED call

\* the ProcessDownload goroutines started so far: the torrent each was handed
\* and the episode it was started for (0 for a movie)
Runs == IF call = NoCall THEN {} ELSE call.runs

\* the goroutines one turn of the loop starts: one in the completion branch,
\* for a movie or for the first episode that reads downloading
TrackerSpawns(item, pollOk) ==
  IF item.hash = NoHash \/ ~pollOk \/ torrents[item.hash] # "complete" THEN {}
  ELSE IF item.type = "movie" THEN {[hash |-> item.hash, e |-> 0]}
  ELSE IF ~HasShow(media, item.id) THEN {}
  ELSE LET eps == GetTVShowByMediaID(media, shows, item.id).eps
       IN IF Downloading(eps) = {} THEN {}
          ELSE {[hash |-> item.hash, e |-> FirstDownloading(eps)]}

\* one turn of the loop with the goroutines it starts
TrackerPollSpawns(pollOk) ==
  /\ TrackerRows(pollOk)
  /\ LET runs == Runs \cup TrackerSpawns(Head(trItems), pollOk)
     IN call' = IF runs = {} THEN call ELSE [fn |-> "ProcessDownload", runs |-> runs]

----------------------------------------------------------------------------
(* checkForNewEpisodes, every 6 h *)

CheckItem(row) == [id |-> row.id, type |-> row.type, status |-> row.status]

CheckStart ==
  /\ CanStartJob
  /\ ceItems = <<>>
  /\ LET rows == GetAll(media)
     IN ceItems' = [i \in 1..Len(rows) |-> CheckItem(rows[i])]
  /\ UNCHANGED <<cfg, media, shows, torrents, queue, crashed, workerVars,
                 trItems, ppItems, rfItems, rfPc, clItems, rssMedia, rssLeft, rmItem, down, call>>

\* what upstream says of an episode: not listed; aired, and air date + delay is
\* past; aired less than the delay ago (or no air date); air date in the future
RemoteAir == {"none", "aired", "recent", "future"}

\* the episode after the comparison of the local row with the remote entry
RefreshedEpisode(local, remote) ==
  IF remote = "none" THEN local
  ELSE IF local = "none" THEN (IF remote = "future" THEN "tba" ELSE "pending")
  ELSE IF local = "tba" /\ remote = "aired" THEN "pending"
  ELSE local

\* updateShowMetadata(media, provider) once the remote and local show are read
updateShowMetadata(md, sh, item, remote) ==
  LET sid == md[item.id].show
      eps == sh[sid].eps
      neweps == [e \in Eps |-> RefreshedEpisode(eps[e], remote[e])]
      newrows == [e \in Eps |-> IF eps[e] = "none" /\ neweps[e] # "none"
                                THEN 1 ELSE sh[sid].rows[e]]
      sh2 == [sh EXCEPT ![sid].eps = neweps, ![sid].rows = newrows]
      md2 == IF neweps # eps /\ item.status = "monitoring"
             THEN UpdateStatus(md, item.id, "pending") ELSE md
  IN <<updateShowProgress(md2, sh2, item.id), sh2>>

\* one turn of the loop over the media read by CheckStart
CheckStep(lookup, remote) ==
  /\ ~crashed
  /\ ceItems # <<>>
  /\ LET item == Head(ceItems)
     IN /\ ceItems' = Tail(ceItems)
        /\ IF ~(item.type \in ShowTypes /\ item.status \in {"monitoring", "pending"})
           THEN UNCHANGED <<media, shows, crashed>>
           ELSE IF item.type \notin cfg.providers
           THEN \* m.metadataClients[item.Type][0] on an empty list panics
                /\ crashed' = TRUE
                /\ UNCHANGED <<media, shows>>
           ELSE IF lookup # "found"
           THEN UNCHANGED <<media, shows, crashed>>
           ELSE IF ~HasShow(media, item.id)
           THEN \* localShow is nil: localShow.Seasons panics
                /\ crashed' = TRUE
                /\ UNCHANGED <<media, shows>>
           ELSE LET upd == updateShowMetadata(media, shows, item, remote)
                IN /\ media' = upd[1]
                   /\ shows' = upd[2]
                   /\ UNCHANGED crashed
  /\ UNCHANGED <<cfg, torrents, queue, workerVars,
                 trItems, ppItems, rfItems, rfPc, clItems, rssMedia, rssLeft, rmItem, down, call>>

----------------------------------------------------------------------------
(* processPendingMedia, every 30 min, and retryFailedDownloads, every hour *)

\* the queue values of all the rows, auto_download or not
AllItems(rows) == [i \in 1..Len(rows) |-> QueueItem(rows[i].id, rows[i].type)]

RECURSIVE AutoItems(_)
AutoItems(rows) ==
  IF rows = <<>> THEN <<>>
  ELSE (IF Head(rows).auto THEN <<QueueItem(Head(rows).id, Head(rows).type)>> ELSE <<>>)
       \o AutoItems(Tail(rows))

PendingStart ==
  /\ CanStartJob
  /\ ppItems = <<>>
  /\ ppItems' = AutoItems(GetByStatus(media, "pending") \o GetByStatus(media, "failed"))
  /\ UNCHANGED <<cfg, media, shows, torrents, queue, crashed, workerVars,
                 trItems, ceItems, rfItems, rfPc, clItems, rssMedia, rssLeft, rmItem, down, call>>

\* m.searchQueue <- mediaCopy
PendingSend ==
  /\ ~crashed
  /\ ppItems # <<>>
  /\ CanSend(queue)
  /\ queue' = Append(queue, Head(ppItems))
  /\ ppItems' = Tail(ppItems)
  /\ UNCHANGED <<cfg, media, shows, torrents, crashed, workerVars,
                 trItems, ceItems, rfItems, rfPc, clItems, rssMedia, rssLeft, rmItem, down, call>>


\* the retry tick reads every failed media, auto_download or not
RetryStartAll ==
  /\ CanStartJob
  /\ rfItems = <<>>
  /\ rfItems' = AllItems(GetByStatus(media, "failed"))
  /\ UNCHANGED <<cfg, media, shows, torrents, queue, crashed, workerVars,
                 trItems, ceItems, ppItems, rfPc, clItems, rssMedia, rssLeft, rmItem, down, call>>
RetryStart ==
  /\ CanStartJob
  /\ rfItems = <<>>
  /\ rfItems' = AutoItems(GetByStatus(media, "failed"))
  /\ UNCHANGED <<cfg, media, shows, torrents, queue, crashed, workerVars,
                 trItems, ceItems, ppItems, rfPc, clItems, rssMedia, rssLeft, rmItem, down, call>>

RetryUpdate ==
  /\ ~crashed
  /\ rfItems # <<>>
  /\ rfPc = "update"
  /\ media' = UpdateStatus(media, Head(rfItems).id, "pending")
  /\ rfPc' = "send"
  /\ UNCHANGED <<cfg, shows, torrents, queue, crashed, workerVars,
                 trItems, ceItems, ppItems, rfItems, clItems, rssMedia, rssLeft, rmItem, down, call>>

\* m.searchQueue <- mediaCopy
RetrySend ==
  /\ ~crashed
  /\ rfItems # <<>>
  /\ rfPc = "send"
  /\ CanSend(queue)
  /\ queue' = Append(queue, Head(rfItems))
  /\ rfItems' = Tail(rfItems)
  /\ rfPc' = "update"
  /\ UNCHANGED <<cfg, media, shows, torrents, crashed, workerVars,
                 trItems, ceItems, ppItems, clItems, rssMedia, rssLeft, rmItem, down, call>>

----------------------------------------------------------------------------
(* cleanupCompletedTorrents, every 24 h *)

CleanupItem(row) == [id |-> row.id, hash |-> row.hash, done |-> row.done]

CleanupStart ==
  /\ CanStartJob
  /\ clItems = <<>>
  /\ cfg.keepDays \/ cfg.keepRatio
  /\ LET rows == GetByStatus(media, "downloaded")
     IN clItems' = [i \in 1..Len(rows) |-> CleanupItem(rows[i])]
  /\ UNCHANGED <<cfg, media, shows, torrents, queue, crashed, workerVars,
                 trItems, ceItems, ppItems, rfItems, rfPc, rssMedia, rssLeft, rmItem, down, call>>

\* old: completed_at is before the threshold; ratio: the upload ratio reached
\* keep_torrents_seed_ratio; removed: RemoveTorrent succeeded
CleanupStep(pollOk, old, ratio, removed) ==
  /\ ~crashed
  /\ clItems # <<>>
  /\ LET item == Head(clItems)
         shouldDelete == (cfg.keepDays /\ old) \/ (cfg.keepRatio /\ ratio)
     IN /\ clItems' = Tail(clItems)
        /\ (pollOk /\ item.hash # NoHash) => torrents[item.hash] # "absent"
        /\ IF item.done /\ item.hash # NoHash /\ pollOk /\ shouldDelete /\ removed
           THEN /\ torrents' = [torrents EXCEPT ![item.hash] = "absent"]
                /\ media' = UpdateStatus(media, item.id, "archived")
           ELSE UNCHANGED <<torrents, media>>
  /\ UNCHANGED <<cfg, shows, queue, crashed, workerVars,
                 trItems, ceItems, ppItems, rfItems, rfPc, rssMedia, rssLeft, rmItem, down, call>>

----------------------------------------------------------------------------
(* processRSSFeeds / matchFeedItems, every hour *)

RssStart(n) ==
  /\ CanStartJob
  /\ rssLeft = 0
  /\ LET rows == GetByStatus(media, "monitoring") \o GetByStatus(media, "pending")
     IN /\ rows # <<>>
        /\ rssMedia' = {rows[i].id : i \in 1..Len(rows)}
  /\ rssLeft' = n
  /\ UNCHANGED <<cfg, media, shows, torrents, queue, crashed, workerVars,
                 trItems, ceItems, ppItems, rfItems, rfPc, clItems, rmItem, down, call>>

\* the Seeders of the IndexerResult built from a feed item: the field is
\* left at its zero value
FeedSeeders == 0

\* filterByMinSeeders, the selector's last stage
PassesMinSeeders(seeders) == seeders >= cfg.minSeeders

\* one feed item, whose title names media id (of the list read) and which the
\* selector's stages before the seeder stage accept for episode e and for no
\* other
RssItem(id, e, added) ==
  /\ ~crashed
  /\ rssLeft > 0
  /\ id \in rssMedia
  /\ rssLeft' = rssLeft - 1
  /\ rssMedia' = IF rssLeft = 1 THEN {} ELSE rssMedia
  /\ IF /\ HasShow(media, id)
        /\ GetTVShowByMediaID(media, shows, id).eps[e] = "pending"
        /\ PassesMinSeeders(FeedSeeders)
     THEN LET r == StartEpisodeDownload(media, shows, torrents, id, e, added)
          IN /\ media' = r.md
             /\ shows' = r.sh
             /\ torrents' = r.tr
     ELSE UNCHANGED <<media, shows, torrents>>
  /\ UNCHANGED <<cfg, queue, crashed, workerVars,
                 trItems, ceItems, ppItems, rfItems, rfPc, clItems, rmItem, down, call>>

----------------------------------------------------------------------------
(* The API: a user starts the download of an episode by hand *)

ManualEpisodeDownload(id, e, added) ==
  /\ ~crashed
  /\ Exists(media, id)
  /\ LET r == StartEpisodeDownload(media, shows, torrents, id, e, added)
     IN /\ media' = r.md
        /\ shows' = r.sh
        /\ torrents' = r.tr
  /\ UNCHANGED <<cfg, queue, crashed, workerVars, jobVars, rmItem, down, call>>

\* The API: a user starts the download of a torrent for a media by hand
ManualDownload(id, added) ==
  /\ ~crashed
  /\ Exists(media, id)
  /\ LET r == StartDownload(media, torrents, id, added)
     IN /\ media' = r.md
        /\ torrents' = r.tr
  /\ UNCHANGED <<cfg, shows, queue, crashed, workerVars, jobVars, rmItem, down, call>>

\* The API: DeleteMedia(id)
DeleteMedia(id) ==
  /\ ~crashed
  /\ Exists(media, id)
  /\ media' = Delete(media, id)
  /\ UNCHANGED <<cfg, shows, torrents, queue, crashed, workerVars, jobVars, rmItem, down, call>>

RECURSIVE DeleteEach(_, _)
DeleteEach(md, rows) ==
  IF rows = <<>> THEN md ELSE DeleteEach(Delete(md, Head(rows).id), Tail(rows))

\* The API: ClearFailedMedia deletes every media read as failed
ClearFailedMedia ==
  /\ ~crashed
  /\ media' = DeleteEach(media, GetByStatus(media, "failed"))
  /\ UNCHANGED <<cfg, shows, torrents, queue, crashed, workerVars, jobVars, rmItem, down, call>>

\* RetryMedia(id): a user asks for a new attempt; the status write
RetryMedia(id) ==
  /\ ~crashed
  /\ Exists(media, id)
  /\ rmItem.id = 0
  /\ IF media[id].status \in {"failed", "pending"}
     THEN /\ media' = UpdateStatus(media, id, "pending")
          /\ rmItem' = QueueItem(id, media[id].type)
     ELSE UNCHANGED <<media, rmItem>>
  /\ UNCHANGED <<cfg, shows, torrents, queue, crashed, workerVars, jobVars, down, call>>

\* RetryMedia(id): m.searchQueue <- *media
RetryMediaSend ==
  /\ ~crashed
  /\ rmItem.id # 0
  /\ CanSend(queue)
  /\ queue' = Append(queue, rmItem)
  /\ rmItem' = QueueItem(0, "none")
  /\ UNCHANGED <<cfg, media, shows, torrents, crashed, workerVars, jobVars, down, call>>

----------------------------------------------------------------------------
(* main: shutdown on SIGINT / SIGTERM *)

\* manager.Stop(): m.scheduler.Stop(), and nothing else
ManagerStop ==
  /\ down = "up"
  /\ down' = "stopping"
  /\ UNCHANGED <<cfg, media, shows, torrents, queue, crashed, workerVars, jobVars,
                 rmItem, call>>

\* server.Stop(ctx), after which main returns and every goroutine ends
ServerStop ==
  /\ down = "stopping"
  /\ down' = "exited"
  /\ UNCHANGED <<cfg, media, shows, torrents, queue, crashed, workerVars, jobVars,
                 rmItem, call>>

\* the process has not ended
Alive == down # "exited"

----------------------------------------------------------------------------
(* The next-state relations *)

Lookups == {"found", "empty", "error"}
Outcomes == {"none", "addfail", "added"}

LibrarySize == Cardinality({id \in MediaIds : Exists(media, id)})

\* a user adds a media while the library holds fewer than limit rows
AddAny(limit) ==
  /\ LibrarySize < limit
  /\ \E type \in MediaTypes, auto \in BOOLEAN, lookup \in Lookups,
        upstream \in {"running", "ended"},
        air \in [Eps -> {"none", "aired", "future"}], startEpisode \in Eps :
       \E title \in (IF type = "movie" THEN Titles ELSE {0}) :
         AddMedia(type, title, auto, lookup, upstream, air, {}, startEpisode)

\* a user adds a media by its title
AddTitled(limit) ==
  /\ LibrarySize < limit
  /\ \E type \in MediaTypes, auto \in BOOLEAN, lookup \in Lookups,
        upstream \in {"running", "ended"},
        air \in [Eps -> {"none", "aired", "future"}], startEpisode \in Eps :
       \E title \in Titles :
         AddMedia(type, title, auto, lookup, upstream, air, {}, startEpisode)

\* a user adds a media whose upstream listing may repeat an episode number
AddListed(limit) ==
  /\ LibrarySize < limit
  /\ \E type \in MediaTypes, auto \in BOOLEAN, lookup \in Lookups,
        upstream \in {"running", "ended"},
        air \in [Eps -> {"none", "aired", "future"}], twice \in SUBSET Eps,
        startEpisode \in Eps :
       AddMedia(type, 0, auto, lookup, upstream, air, twice, startEpisode)

Worker ==
  \/ WorkerTake
  \/ \E o \in Outcomes : WorkerMovie(o)
  \/ \E o \in Outcomes : WorkerEpisode(o)

Client == \E h \in Hashes : TorrentCompletes(h)

Tracker == TrackerStart \/ \E ok \in BOOLEAN : TrackerPoll(ok)

CheckNew ==
  \/ CheckStart
  \/ \E lookup \in Lookups, remote \in [Eps -> RemoteAir] : CheckStep(lookup, remote)

ProcessPending == PendingStart \/ PendingSend

RetryFailed == RetryStart \/ RetryUpdate \/ RetrySend

Cleanup ==
  \/ CleanupStart
  \/ \E pollOk, old, ratio, removed \in BOOLEAN : CleanupStep(pollOk, old, ratio, removed)

Rss ==
  \/ \E n \in 1..MaxFeedItems : RssStart(n)
  \/ \E id \in MediaIds, e \in Eps, added \in BOOLEAN : RssItem(id, e, added)

Manual == \E id \in MediaIds, e \in Eps, added \in BOOLEAN : ManualEpisodeDownload(id, e, added)

ManualRetry == RetryMediaSend \/ \E id \in MediaIds : RetryMedia(id)

ManualDelete == ClearFailedMedia \/ \E id \in MediaIds : DeleteMedia(id)

ManualStart == \E id \in MediaIds, added \in BOOLEAN : ManualDownload(id, added)

\* a step of the queue worker, of a scheduler task or of the tracker
Automatic ==
  Worker \/ Tracker \/ CheckNew \/ ProcessPending \/ RetryFailed \/ Cleanup \/ Rss

\* every routine of the program over a library of MaxFollowed rows
Next ==
  \/ AddAny(MaxFollowed)
  \/ Worker
  \/ Client
  \/ Tracker
  \/ CheckNew
  \/ ProcessPending
  \/ RetryFailed
  \/ Cleanup
  \/ Rss
  \/ Manual

Spec == Init /\ [][Next]_vars

\* the program left to itself once the media are added: no download is
\* started by hand
NextAuto ==
  \/ AddAny(MaxFollowed)
  \/ Automatic
  \/ Client

SpecAuto == Init /\ [][NextAuto]_vars

\* the routines that send to and receive from the search queue
NextQueue ==
  \/ AddAny(MaxMedia)
  \/ Worker
  \/ ProcessPending
  \/ RetryFailed

SpecQueue == Init /\ [][NextQueue]_vars

\* The hourly retry together with the user's manual calls
NextRetry ==
  \/ AddAny(MaxFollowed)
  \/ Worker
  \/ RetryFailed
  \/ ManualRetry
  \/ ManualStart
  \/ Manual

SpecRetry == Init /\ [][NextRetry]_vars

\* The library under additions, acquisitions and deletions
NextDelete ==
  \/ AddAny(MaxFollowed)
  \/ Worker
  \/ ManualStart
  \/ ManualDelete

SpecDelete == Init /\ [][NextDelete]_vars

\* The library under additions and deletions, with or without a metadata
\* provider for movies
NextAdd ==
  \/ AddTitled(MaxMedia)
  \/ ManualStart
  \/ ManualDelete

SpecAdd == InitMovies /\ [][NextAdd]_vars

\* The process up to its shutdown: requests, the worker and the
\* process-pending job while it lives
NextStop ==
  \/ Alive /\ AddAny(MaxFollowed)
  \/ Alive /\ Worker
  \/ Alive /\ ProcessPending
  \/ ManagerStop
  \/ ServerStop

SpecStop == Init /\ [][NextStop]_vars

\* Shows under AddMedia and the check for new episodes
NextListing ==
  \/ AddListed(MaxFollowed)
  \/ CheckNew

SpecListing == Init /\ [][NextListing]_vars

\* ---------------------------------------------------------------------
\* The torrent selector

\* the keys of QUALITY_SCORES a title is built from; neither contains
\* another key
ScoreWords == {"x264", "aac"}

QUALITY_SCORES == [w \in ScoreWords |-> IF w = "x264" THEN 2 ELSE 1]

\* an indexer result that passes the reject, name and quality stages: the
\* score keys its title contains, and its seeders
Candidates == [words : SUBSET ScoreWords, seeders : 0..MaxSeeders]

RECURSIVE SumScores(_)
SumScores(ws) ==
  IF ws = {} THEN 0
  ELSE LET w == CHOOSE x \in ws : TRUE
       IN QUALITY_SCORES[w] + SumScores(ws \ {w})

getQualityScore(title) == SumScores(title.words)

Score(r) == getQualityScore(r) + r.seeders

\* the indices of results that filterByMinSeeders keeps, in input order
RECURSIVE filterByMinSeeders(_, _)
filterByMinSeeders(results, i) ==
  IF i > Len(results) THEN <<>>
  ELSE (IF PassesMinSeeders(results[i].seeders) THEN <<i>> ELSE <<>>)
       \o filterByMinSeeders(results, i + 1)

Orders(ix) ==
  {p \in [1..Len(ix) -> 1..Len(ix)] : \A a, b \in 1..Len(ix) : a # b => p[a] # p[b]}

\* less(i, j) of the sort.Slice call: results[i].Score > results[j].Score
Sorted(results, ix) ==
  \A a, b \in 1..Len(ix) : a < b => Score(results[ix[a]]) >= Score(results[ix[b]])

Stable(results, ix) ==
  \A a, b \in 1..Len(ix) :
    (a < b /\ Score(results[ix[a]]) = Score(results[ix[b]])) => ix[a] < ix[b]

\* sort.Slice: the slice in descending score; "the sort is not guaranteed to
\* be stable", and is only for the lengths the runtime sorts by insertion
SortSlice(results, ix) ==
  LET all == {[a \in 1..Len(ix) |-> ix[p[a]]] : p \in Orders(ix)}
  IN {o \in all : /\ Sorted(results, o)
                  /\ Len(ix) <= InsertionSortLen => Stable(results, o)}

\* FilterAndScoreTorrents on a movie's results: out lists the survivors as
\* indices into the input. One call is followed from each configuration
FilterAndScoreTorrents(results) ==
  /\ ~crashed
  /\ call = NoCall
  /\ \E out \in SortSlice(results, filterByMinSeeders(results, 1)) :
       call' = [fn |-> "FilterAndScoreTorrents", in |-> results, out |-> out]
  /\ UNCHANGED <<cfg, media, shows, torrents, queue, crashed, workerVars, jobVars,
                 rmItem, down>>

ResultLists == UNION {[1..n -> Candidates] : n \in 0..MaxCandidates}

NextSelect ==
  /\ call = NoCall
  /\ \E results \in ResultLists : FilterAndScoreTorrents(results)

SpecSelect == InitSeeders /\ [][NextSelect]_vars

\* a title is a sequence of characters
TagChars == {"S", "s", "e", "x", "0", "1"}

DigitChars == {"0", "1", "2", "3", "4", "5", "6", "7", "8", "9"}

\* strings.ToLower, and the (?i) flag, on the letters in use
LowerChar(c) == IF c = "S" THEN "s" ELSE IF c = "N" THEN "n" ELSE c

ToLower(t) == [i \in 1..Len(t) |-> LowerChar(t[i])]

\* fmt.Sprintf("%d", n) and fmt.Sprintf("%02d", n) for 0 <= n <= 9
FmtD(n) == <<[kind |-> "lit", c |-> ToString(n)]>>

Fmt02D(n) == <<[kind |-> "lit", c |-> "0"], [kind |-> "lit", c |-> ToString(n)]>>

Lit(c) == <<[kind |-> "lit", c |-> c]>>

\* 0*
Zeros == <<[kind |-> "star", c |-> "0"]>>

\* (?:\D|$)
NoDigitAfter == <<[kind |-> "after", c |-> ""]>>

\* (?:\D|^)
NoDigitBefore == <<[kind |-> "before", c |-> ""]>>

\* the six patterns of filterByEpisodeNumber, in the order of the source
EpisodePatterns(season, episode) ==
  << Lit("s") \o Zeros \o FmtD(season) \o Lit("e") \o Zeros \o FmtD(episode) \o NoDigitAfter,
     NoDigitBefore \o FmtD(season) \o Lit("x") \o Zeros \o FmtD(episode) \o NoDigitAfter,
     Lit("s") \o Fmt02D(season) \o Lit("e") \o Fmt02D(episode),
     Lit("s") \o FmtD(season) \o Lit("e") \o FmtD(episode),
     FmtD(season) \o Lit("x") \o Fmt02D(episode),
     FmtD(season) \o Lit("x") \o FmtD(episode) >>

\* the pattern from element k on matches t at position i
RECURSIVE MatchAt(_, _, _, _)
MatchAt(re, k, t, i) ==
  IF k > Len(re) THEN TRUE
  ELSE LET el == re[k] IN
    CASE el.kind = "lit" ->
           i <= Len(t) /\ t[i] = el.c /\ MatchAt(re, k + 1, t, i + 1)
      [] el.kind = "star" ->
           \/ MatchAt(re, k + 1, t, i)
           \/ i <= Len(t) /\ t[i] = el.c /\ MatchAt(re, k, t, i + 1)
      [] el.kind = "after" ->
           \/ i > Len(t) /\ MatchAt(re, k + 1, t, i)
           \/ i <= Len(t) /\ t[i] \notin DigitChars /\ MatchAt(re, k + 1, t, i + 1)
      [] el.kind = "before" ->
           \/ i = 1 /\ MatchAt(re, k + 1, t, i)
           \/ i <= Len(t) /\ t[i] \notin DigitChars /\ MatchAt(re, k + 1, t, i + 1)

\* Regexp.MatchString of a (?i) pattern: a match anywhere in the title
MatchString(re, title) ==
  \E i \in 1..(Len(title) + 1) : MatchAt(re, 1, ToLower(title), i)

\* filterByEpisodeNumber keeps the result of this title
EpisodeMatched(title, season, episode) ==
  \E k \in 1..6 : MatchString(EpisodePatterns(season, episode)[k], title)

filterByEpisodeNumber(title, season, episode) ==
  /\ ~crashed
  /\ call = NoCall
  /\ call' = [fn |-> "filterByEpisodeNumber", title |-> title, season |-> season,
              episode |-> episode, kept |-> EpisodeMatched(title, season, episode)]
  /\ UNCHANGED <<cfg, media, shows, torrents, queue, crashed, workerVars, jobVars,
                 rmItem, down>>

TagTitles == UNION {[1..n -> TagChars] : n \in 0..MaxTagLen}

NextEpisode ==
  /\ call = NoCall
  /\ \E title \in TagTitles, season, episode \in 1..MaxNumber :
       filterByEpisodeNumber(title, season, episode)

SpecEpisode == Init /\ [][NextEpisode]_vars

\* the characters of search terms and of the titles the series-name stage
\* reads
NameChars == {"o", "n", "N", " ", ";"}

LowerChars == {"o", "n", "s", "e", "x"}

UpperChars == {"N", "S"}

\* \s, and the complement of [\w\s]
SpaceChars == {" "}

PunctChars == {";"}

\* strings.Contains
Contains(t, sub) ==
  \E i \in 0..(Len(t) - Len(sub)) : SubSeq(t, i + 1, i + Len(sub)) = sub

\* strings.Fields: the maximal runs of non-space characters, from position i
\* with the run cur open
RECURSIVE FieldsFrom(_, _, _)
FieldsFrom(t, i, cur) ==
  IF i > Len(t) THEN (IF cur = <<>> THEN <<>> ELSE <<cur>>)
  ELSE IF t[i] \in SpaceChars
       THEN (IF cur = <<>> THEN <<>> ELSE <<cur>>) \o FieldsFrom(t, i + 1, <<>>)
       ELSE FieldsFrom(t, i + 1, Append(cur, t[i]))

Fields(t) == FieldsFrom(t, 1, <<>>)

\* ReplaceAllString(word, "$1 $2") of ([a-z])([A-Z]): a space after every
\* lower-case letter that an upper-case letter follows
RECURSIVE CamelSpaced(_, _)
CamelSpaced(t, i) ==
  IF i > Len(t) THEN <<>>
  ELSE IF i < Len(t) /\ t[i] \in LowerChars /\ t[i + 1] \in UpperChars
       THEN <<t[i], " ">> \o CamelSpaced(t, i + 1)
       ELSE <<t[i]>> \o CamelSpaced(t, i + 1)

splitCamelCase(word) ==
  LET parts == Fields(CamelSpaced(word, 1))
  IN IF Len(parts) > 1 THEN parts ELSE <<word>>

stopWords ==
  { <<"t","h","e">>, <<"a">>, <<"a","n">>, <<"a","n","d">>, <<"o","r">>,
    <<"b","u","t">>, <<"i","n">>, <<"o","n">>, <<"a","t">>, <<"t","o">>,
    <<"f","o","r">>, <<"o","f">>, <<"w","i","t","h">>, <<"b","y">>,
    <<"f","r","o","m">>, <<"u","p">>, <<"a","b","o","u","t">>,
    <<"i","n","t","o">> }

IsMeaningful(w) == Len(w) > 1 /\ ToLower(w) \notin stopWords

\* the words one word of the cleaned title contributes
WordsOf(word) ==
  IF Len(word) > 1
  THEN LET camelParts == splitCamelCase(word)
       IN (IF ToLower(word) \notin stopWords THEN <<word>> ELSE <<>>)
          \o (IF Len(camelParts) > 1 THEN SelectSeq(camelParts, IsMeaningful) ELSE <<>>)
  ELSE <<>>

RECURSIVE WordsFrom(_, _)
WordsFrom(words, i) ==
  IF i > Len(words) THEN <<>> ELSE WordsOf(words[i]) \o WordsFrom(words, i + 1)

\* the words whose lower-case form no earlier word has
RECURSIVE Unique(_, _)
Unique(ws, i) ==
  IF i > Len(ws) THEN <<>>
  ELSE (IF \E j \in 1..(i - 1) : ToLower(ws[j]) = ToLower(ws[i]) THEN <<>> ELSE <<ws[i]>>)
       \o Unique(ws, i + 1)

extractMeaningfulWords(title) ==
  LET IsKept(c) == c \notin PunctChars
      cleanTitle == SelectSeq(title, IsKept)
  IN Unique(WordsFrom(Fields(cleanTitle), 1), 1)

\* strategy 1: every meaningful word of the term is in the title
AllWordsFound(titleLower, term) ==
  LET meaningfulWords == extractMeaningfulWords(term)
  IN \A k \in 1..Len(meaningfulWords) : Contains(titleLower, ToLower(meaningfulWords[k]))

\* strategy 2: the term as it is
TermFound(titleLower, term) == Contains(titleLower, ToLower(term))

\* strategy 3: the term's parts joined by spaces
SpacedFound(titleLower, term) ==
  LET camelParts == splitCamelCase(term)
  IN /\ Len(camelParts) > 1
     /\ Contains(titleLower, ToLower(CamelSpaced(term, 1)))

\* filterBySeriesName keeps the result of this title
NameMatched(title, searchTerms) ==
  \/ \A k \in 1..Len(searchTerms) : extractMeaningfulWords(searchTerms[k]) = <<>>
  \/ \E k \in 1..Len(searchTerms) :
       \/ AllWordsFound(ToLower(title), searchTerms[k])
       \/ TermFound(ToLower(title), searchTerms[k])
       \/ SpacedFound(ToLower(title), searchTerms[k])

filterBySeriesName(title, searchTerms) ==
  /\ ~crashed
  /\ call = NoCall
  /\ call' = [fn |-> "filterBySeriesName", title |-> title, terms |-> searchTerms,
              kept |-> NameMatched(title, searchTerms)]
  /\ UNCHANGED <<cfg, media, shows, torrents, queue, crashed, workerVars, jobVars,
                 rmItem, down>>

SearchTerms == UNION {[1..n -> NameChars] : n \in 1..MaxTermLen}

NameTitles == UNION {[1..n -> NameChars] : n \in 0..MaxNameLen}

NextName ==
  /\ call = NoCall
  /\ \E title \in NameTitles, n \in 1..MaxTerms :
       \E searchTerms \in [1..n -> SearchTerms] : filterBySeriesName(title, searchTerms)

SpecName == Init /\ [][NextName]_vars

Resolutions == {"360p", "480p", "720p", "1080p", "1440p", "2160p", "4320p"}

RESOLUTION_SYNONYMS ==
  [res \in Resolutions |->
     CASE res = "4320p" -> {"4320p", "8k"}
       [] res = "2160p" -> {"2160p", "4k", "uhd"}
       [] res = "1440p" -> {"1440p", "2k"}
       [] res = "1080p" -> {"1080p", "fhd"}
       [] res = "720p"  -> {"720p", "hd", "hdtv", "xvid"}
       [] res = "480p"  -> {"480p", "576p", "sd", "msd", "dvdrip", "ntsc", "pal"}
       [] res = "360p"  -> {"360p"}]

RESOLUTION_RANK ==
  [res \in Resolutions |->
     CASE res = "360p"  -> 0
       [] res = "480p"  -> 1
       [] res = "720p"  -> 2
       [] res = "1080p" -> 3
       [] res = "1440p" -> 4
       [] res = "2160p" -> 5
       [] res = "4320p" -> 6]

SUPPORTED_RESOLUTIONS == <<"2160p", "1440p", "1080p", "720p", "480p", "360p">>

\* the synonyms a title is built from; a title is the set of those that
\* strings.Contains finds in it, none of these being inside another
ResolutionWords == {"4320p", "8k", "2160p", "1080p", "fhd", "720p", "480p", "360p"}

\* the rank of the first resolution of SUPPORTED_RESOLUTIONS, from index i
\* on, that has a synonym in the title
RECURSIVE RankFrom(_, _)
RankFrom(title, i) ==
  IF i > Len(SUPPORTED_RESOLUTIONS) THEN -1
  ELSE IF RESOLUTION_SYNONYMS[SUPPORTED_RESOLUTIONS[i]] \cap title # {}
       THEN RESOLUTION_RANK[SUPPORTED_RESOLUTIONS[i]]
       ELSE RankFrom(title, i + 1)

getResolutionRank(title) == RankFrom(title, 1)

\* filterByQuality keeps the result of this title
QualityKept(title, minQuality, maxQuality) ==
  LET minRank == RESOLUTION_RANK[minQuality]
      maxRank == RESOLUTION_RANK[maxQuality]
      rank == getResolutionRank(title)
  IN rank >= minRank /\ rank <= maxRank

filterByQuality(title, minQuality, maxQuality) ==
  /\ ~crashed
  /\ call = NoCall
  /\ call' = [fn |-> "filterByQuality", title |-> title, min |-> minQuality,
              max |-> maxQuality, kept |-> QualityKept(title, minQuality, maxQuality)]
  /\ UNCHANGED <<cfg, media, shows, torrents, queue, crashed, workerVars, jobVars,
                 rmItem, down>>

NextQuality ==
  /\ call = NoCall
  /\ \E title \in SUBSET ResolutionWords, minQuality, maxQuality \in Resolutions :
       filterByQuality(title, minQuality, maxQuality)

SpecQuality == Init /\ [][NextQuality]_vars

\* ---------------------------------------------------------------------
\* The post-processor

\* the entries a move_method list can hold; "rsync" stands for any other word
MoveMethods == {"hardlink", "symlink", "move", "copy", "rsync"}

KnownMethods == {"hardlink", "symlink", "move", "copy"}

MethodLists == UNION {[1..n -> MoveMethods] : n \in 0..MaxMethods}

\* ProcessDownload has returned err
Failed(c) == [c EXCEPT !.pc = "done", !.result = "error"]

\* a loop without the break: it goes on after a method that succeeded
NoBreak(success) == FALSE

\* the break after a method that returned no error
Break(success) == success

\* ProcessDownload up to the first file of processFilesWithFallback: the
\* destination folder, the media files and the move_method list of the type
ProcessDownload(moveMethods, files, destination) ==
  /\ ~crashed
  /\ call = NoCall
  /\ LET c == [fn |-> "ProcessDownload", pc |-> "wait", methods |-> moveMethods,
               files |-> files, file |-> 1, method |-> 1,
               tried |-> [f \in 1..files |-> <<>>],
               placed |-> [f \in 1..files |-> 0],
               renamed |-> FALSE, subtitles |-> FALSE, notified |-> FALSE,
               result |-> "none"]
     IN call' = IF ~destination \/ files = 0 \/ Len(moveMethods) = 0
                THEN Failed(c) ELSE c
  /\ UNCHANGED <<cfg, media, shows, torrents, queue, crashed, workerVars, jobVars,
                 rmItem, down>>

\* waitForFile for the current file
WaitForFile(appeared) ==
  /\ ~crashed
  /\ call.fn = "ProcessDownload" /\ call.pc = "wait"
  /\ call' = IF appeared THEN [call EXCEPT !.pc = "try", !.method = 1]
             ELSE Failed(call)
  /\ UNCHANGED <<cfg, media, shows, torrents, queue, crashed, workerVars, jobVars,
                 rmItem, down>>

\* one turn of the loop over moveMethods for the current file; ok is what the
\* file system answers to a known method
TryMethod(ok) ==
  /\ ~crashed
  /\ call.fn = "ProcessDownload" /\ call.pc = "try"
  /\ LET f == call.file
         m == call.method
         success == ok /\ call.methods[m] \in KnownMethods
         c == [call EXCEPT !.tried[f] = Append(@, call.methods[m]),
                           !.placed[f] = IF success THEN m ELSE @]
     IN call' =
          IF Break(success)
          THEN IF f < call.files
               THEN [c EXCEPT !.file = f + 1, !.pc = "wait"]
               ELSE [c EXCEPT !.pc = "rename"]
          ELSE IF m < Len(call.methods)
               THEN [c EXCEPT !.method = m + 1]
               ELSE IF c.placed[f] = 0
                    THEN Failed(c)
                    ELSE IF f < call.files
                         THEN [c EXCEPT !.file = f + 1, !.pc = "wait"]
                         ELSE [c EXCEPT !.pc = "rename"]
  /\ UNCHANGED <<cfg, media, shows, torrents, queue, crashed, workerVars, jobVars,
                 rmItem, down>>

\* renameFiles, downloadSubtitles when a video file was renamed, and
\* notifyPostProcessCompleted
FinishDownload(video) ==
  /\ ~crashed
  /\ call.fn = "ProcessDownload" /\ call.pc = "rename"
  /\ call' = [call EXCEPT !.pc = "done", !.renamed = TRUE, !.subtitles = video,
                          !.notified = TRUE, !.result = "ok"]
  /\ UNCHANGED <<cfg, media, shows, torrents, queue, crashed, workerVars, jobVars,
                 rmItem, down>>

NextPost ==
  \/ /\ call = NoCall
     /\ \E moveMethods \in MethodLists, files \in 0..MaxFiles, destination \in BOOLEAN :
          ProcessDownload(moveMethods, files, destination)
  \/ \E appeared \in BOOLEAN : WaitForFile(appeared)
  \/ \E ok \in BOOLEAN : TryMethod(ok)
  \/ \E video \in BOOLEAN : FinishDownload(video)

SpecPost == Init /\ [][NextPost]_vars

\* the characters of a media title on its way into a path
PathChars == {"a", ":", "/", " ", "."}

\* the class [<>:"/\\|?*] of SanitizeFilename
InvalidChars == {"<", ">", ":", "\"", "/", "\\", "|", "?", "*"}

\* strings.TrimRight(s, " .")
RECURSIVE TrimRight(_)
TrimRight(t) ==
  IF t # <<>> /\ t[Len(t)] \in {" ", "."} THEN TrimRight(SubSeq(t, 1, Len(t) - 1))
  ELSE t

SanitizeFilename(name) ==
  LET IsValid(c) == c \notin InvalidChars
  IN TrimRight(SelectSeq(name, IsValid))

\* the folder name of createDestinationFolder: "%s (%d)" of the sanitized
\* title and the year, as the list of its parts
FolderName(title) == <<SanitizeFilename(title), <<" ", "(">>, <<"year">>, <<")">>>>

\* the new name of renameFiles, as the list of its parts: the fallback
\* scheme "%s (%d) [%s]%s" when no template is configured, else the template
\* "{title} ({year})" with its placeholders replaced, and the extension
FileName(title, template) ==
  IF template
  THEN <<title, <<" ", "(">>, <<"year">>, <<")">>, <<"ext">>>>
  ELSE <<title, <<" ", "(">>, <<"year">>, <<")", " ", "[">>, <<"quality">>, <<"]">>, <<"ext">>>>

\* the names ProcessDownload builds for a movie of this title
ProducePaths(title, template) ==
  /\ ~crashed
  /\ call = NoCall
  /\ call' = [fn |-> "renameFiles", title |-> title,
              folder |-> FolderName(title), file |-> FileName(title, template)]
  /\ UNCHANGED <<cfg, media, shows, torrents, queue, crashed, workerVars, jobVars,
                 rmItem, down>>

PathTitles == UNION {[1..n -> PathChars] : n \in 1..MaxPathLen}

NextPaths ==
  /\ call = NoCall
  /\ \E title \in PathTitles, template \in BOOLEAN : ProducePaths(title, template)

SpecPaths == Init /\ [][NextPaths]_vars

\* ---------------------------------------------------------------------
\* waitForFile

\* the call tells the deadline at instant WaitDeadline of its clock and stats
\* the path at the instants the ticker fires, every TickEvery instants
WaitDeadline == WaitTicks * TickEvery

\* waitForFile is called: the context and the ticker are created, nothing is
\* read yet. exists says whether the path is there at call time
waitForFile(exists) ==
  /\ ~crashed
  /\ call = NoCall
  /\ call' = [fn |-> "waitForFile", now |-> 0, exists |-> exists, seen |-> exists,
              result |-> "none"]
  /\ UNCHANGED <<cfg, media, shows, torrents, queue, crashed, workerVars, jobVars,
                 rmItem, down>>

\* one instant passes, at which the path is there or not. At an instant the
\* ticker fires the select takes the tick and stats the path; at the deadline
\* ctx.Done() and the last tick are both ready and the select takes either
WaitInstant(exists, takesTick) ==
  /\ ~crashed
  /\ call.fn = "waitForFile" /\ call.result = "none"
  /\ LET now == call.now + 1
         c == [call EXCEPT !.now = now, !.exists = exists, !.seen = @ \/ exists]
         ticks == now % TickEvery = 0
         expired == now >= WaitDeadline
     IN call' =
          IF ticks /\ (~expired \/ takesTick) /\ exists
          THEN [c EXCEPT !.result = "true"]
          ELSE IF expired THEN [c EXCEPT !.result = "false"]
          ELSE c
  /\ UNCHANGED <<cfg, media, shows, torrents, queue, crashed, workerVars, jobVars,
                 rmItem, down>>

SpecWait ==
  Init /\ [][\/ \E exists \in BOOLEAN : waitForFile(exists)
             \/ \E exists, takesTick \in BOOLEAN : WaitInstant(exists, takesTick)]_vars

\* ---------------------------------------------------------------------
\* UpdateEpisodeDownloadInfo, statement by statement

\* the call up to its UPDATE of episodes: the two SELECTs, then the write of
\* the episode's status, which the database carries out or answers with an
\* error
EpisodeInfoEpisode(id, e, ok) ==
  /\ ~crashed
  /\ call = NoCall
  /\ HasShow(media, id)
  /\ GetTVShowByMediaID(media, shows, id).eps[e] = "pending"
  /\ shows' = IF ok THEN UpdateEpisodeDownloadInfo(media, shows, id, e, "downloading", NoHash)[2]
              ELSE shows
  /\ call' = [fn |-> "UpdateEpisodeDownloadInfo", id |-> id, e |-> e, hash |-> <<id, e>>,
              pc |-> IF ok THEN "media" ELSE "done", err |-> ~ok]
  /\ UNCHANGED <<cfg, media, torrents, queue, crashed, workerVars, jobVars, rmItem, down>>

\* the call's UPDATE of media, a statement of its own
EpisodeInfoMedia(ok) ==
  /\ ~crashed
  /\ call.fn = "UpdateEpisodeDownloadInfo" /\ call.pc = "media"
  /\ media' = IF ok THEN UpdateDownloadInfo(media, call.id, "downloading", call.hash)
              ELSE media
  /\ call' = [call EXCEPT !.pc = "done", !.err = ~ok]
  /\ UNCHANGED <<cfg, shows, torrents, queue, crashed, workerVars, jobVars, rmItem, down>>

SpecEpisodeInfo ==
  Init /\ [][\/ AddAny(MaxFollowed)
             \/ \E id \in MediaIds, e \in Eps, ok \in BOOLEAN : EpisodeInfoEpisode(id, e, ok)
             \/ \E ok \in BOOLEAN : EpisodeInfoMedia(ok)]_vars

\* ---------------------------------------------------------------------
\* FilterStats

\* the stages in the order FilterAndScoreTorrents runs them, each named by
\* its counter in FilterStats
Stages == <<"RejectPatterns", "EpisodeNumber", "SeriesName", "Quality", "MinSeeders">>

\* a result as the stages see it: whether a reject pattern matches its title,
\* whether its title passes the episode, name and quality tests, and its
\* seeders
CountedResults ==
  [reject : BOOLEAN, episode : BOOLEAN, name : BOOLEAN, quality : BOOLEAN,
   seeders : 0..MaxSeeders]

\* the stage appends r to filtered. tv says that the media is a show or anime
\* asked for with season and episode above 0, the condition of step 2;
\* noWords that no search term yields a meaningful word
Keeps(stage, r, tv, noWords) ==
  CASE stage = "RejectPatterns" -> ~r.reject
    [] stage = "EpisodeNumber"  -> ~tv \/ r.episode
    [] stage = "SeriesName"     -> ~tv \/ noWords \/ r.name
    [] stage = "Quality"        -> r.quality
    [] stage = "MinSeeders"     -> PassesMinSeeders(r.seeders)

\* a stage that forgets the counter of the name filter
CountsAllButName(stage, r, tv, noWords) ==
  ~Keeps(stage, r, tv, noWords) /\ stage # "SeriesName"

\* the else branch of the stage's loop: the stage's counter goes up by one
Counts(stage, r, tv, noWords) == ~Keeps(stage, r, tv, noWords)

\* the indices of results that are left after the first k stages
RECURSIVE After(_, _, _, _)
After(results, k, tv, noWords) ==
  IF k = 0 THEN [i \in 1..Len(results) |-> i]
  ELSE LET Kept(i) == Keeps(Stages[k], results[i], tv, noWords)
       IN SelectSeq(After(results, k - 1, tv, noWords), Kept)

\* the counter of stage k after the call
Counter(results, k, tv, noWords) ==
  LET Dropped(i) == Counts(Stages[k], results[i], tv, noWords)
  IN Len(SelectSeq(After(results, k - 1, tv, noWords), Dropped))

\* FilterAndScoreTorrents with its FilterStats
FilterWithStats(results, tv, noWords) ==
  /\ ~crashed
  /\ call = NoCall
  /\ call' = [fn |-> "FilterStats", in |-> results, tv |-> tv,
              stats |-> [RejectPatterns |-> Counter(results, 1, tv, noWords),
                         EpisodeNumber |-> Counter(results, 2, tv, noWords),
                         SeriesName |-> Counter(results, 3, tv, noWords),
                         Quality |-> Counter(results, 4, tv, noWords),
                         MinSeeders |-> Counter(results, 5, tv, noWords),
                         InitialCount |-> Len(results),
                         FinalCount |-> Len(After(results, 5, tv, noWords))]]
  /\ UNCHANGED <<cfg, media, shows, torrents, queue, crashed, workerVars, jobVars,
                 rmItem, down>>

CountedLists == UNION {[1..n -> CountedResults] : n \in 0..MaxCounted}

NextStats ==
  /\ call = NoCall
  /\ \E results \in CountedLists, tv, noWords \in BOOLEAN :
       FilterWithStats(results, tv, noWords)

SpecStats == InitSeeders /\ [][NextStats]_vars

\* The scheduler tasks and the queue worker under fair scheduling, with a
\* provider, indexers and a download client that always answer
AnsweringWorker ==
  \/ WorkerTake
  \/ \E o \in {"none", "added"} : WorkerMovie(o)
  \/ \E o \in {"none", "added"} : WorkerEpisode(o)

AnsweringTracker == TrackerStart \/ TrackerPoll(TRUE)

AnsweringCheck == CheckStart \/ \E remote \in [Eps -> RemoteAir] : CheckStep("found", remote)

NextLive ==
  \/ AddAny(MaxFollowed)
  \/ AnsweringWorker
  \/ AnsweringTracker
  \/ AnsweringCheck
  \/ ProcessPending
  \/ Client

SpecLive ==
  /\ Init /\ [][NextLive]_vars
  /\ WF_vars(AnsweringWorker)
  /\ WF_vars(AnsweringTracker)
  /\ WF_vars(AnsweringCheck)
  /\ WF_vars(ProcessPending)
  /\ WF_vars(Client)

\* The searches, the download client and the tracker, with the
\* post-processing goroutines the tracker starts
NextOnce ==
  \/ AddAny(MaxFollowed)
  \/ Worker
  \/ Client
  \/ TrackerStart
  \/ \E ok \in BOOLEAN : TrackerPollSpawns(ok)

SpecOnce == Init /\ [][NextOnce]_vars

\* ---------------------------------------------------------------------
\* renameFiles

\* the extensions identifyMediaFiles lets through, a video and a subtitle one
\* among them
Extensions == {".mkv", ".mp4", ".srt"}

\* filepath.Base of the files of a torrent, without the extension
Bases == <<"a", "b">>

\* the file names of a destination folder: a stem and an extension
MovedName(i, ext) == <<Bases[i], ext>>

\* newName: the template, or the fallback scheme, filled with the title, the
\* year or the season and episode, and the quality, which are those of the
\* call, and the extension of the file
NewName(ext) == <<"Title - S01E01 [1080p]", ext>>

FolderNames == {MovedName(i, ext) : i \in 1..MaxFiles, ext \in Extensions}
                 \cup {NewName(ext) : ext \in Extensions}

\* renameFiles is called with the media files of the torrent, given by their
\* extensions; placed are the files that are in the destination folder under
\* their base name. dir tells the file behind each name, 0 for none
renameFiles(filesToRename, placed) ==
  /\ ~crashed
  /\ call = NoCall
  /\ LET Holds(n) == {i \in placed : n = MovedName(i, filesToRename[i])}
     IN call' = [fn |-> "renameFiles", files |-> filesToRename, file |-> 1,
                 dir |-> [n \in FolderNames |->
                            IF Holds(n) = {} THEN 0 ELSE CHOOSE i \in Holds(n) : TRUE],
                 renamed |-> {}]
  /\ UNCHANGED <<cfg, media, shows, torrents, queue, crashed, workerVars, jobVars,
                 rmItem, down>>

\* one turn of the loop: os.Stat of the moved path, then os.Rename to the new
\* path, which replaces a file that is there; ok is what os.Rename answers
RenameFile(ok) ==
  /\ ~crashed
  /\ call.fn = "renameFiles" /\ call.file <= Len(call.files)
  /\ LET f == call.file
         movedPath == MovedName(f, call.files[f])
         newPath == NewName(call.files[f])
         c == [call EXCEPT !.file = f + 1]
     IN call' = IF call.dir[movedPath] # 0 /\ ok
                THEN [c EXCEPT !.dir = [call.dir EXCEPT ![newPath] = call.dir[movedPath],
                                                        ![movedPath] = 0],
                               !.renamed = @ \cup {f}]
                ELSE c
  /\ UNCHANGED <<cfg, media, shows, torrents, queue, crashed, workerVars, jobVars,
                 rmItem, down>>

FileLists == UNION {[1..n -> Extensions] : n \in 0..MaxFiles}

NextRename ==
  \/ /\ call = NoCall
     /\ \E filesToRename \in FileLists :
          \E placed \in SUBSET (1..Len(filesToRename)) : renameFiles(filesToRename, placed)
  \/ \E ok \in BOOLEAN : RenameFile(ok)

SpecRename == Init /\ [][NextRename]_vars

\* The RSS sweep over a library, with and without a seeder threshold
NextFeed ==
  \/ AddAny(MaxFollowed)
  \/ Rss

SpecFeed == InitSeeders /\ [][NextFeed]_vars

----------------------------------------------------------------------------
(* The statements of the specification *)

ShowMedia == {id \in MediaIds : HasShow(media, id)}

\* C1: in every reachable state each show/anime media has at most one episode
\* whose status is downloading
C1_OneDownloadingEpisode ==
  \A id \in ShowMedia :
    Cardinality(Downloading(GetTVShowByMediaID(media, shows, id).eps)) <= 1

\* the status section 3 of the specification derives from the episodes
DerivedStatus(show) ==
  IF Count(show.eps, {"pending", "downloading"}) > 0 THEN "downloading"
  ELSE IF show.status = "running" \/ Count(show.eps, {"tba"}) > 0 THEN "monitoring"
  ELSE "downloaded"

\* the step is one of the program's own routines and writes the row of media
\* id, or a row of its show aggregate
Committed(id) ==
  /\ Automatic
  /\ Exists(media, id)
  /\ \/ media'[id] # media[id]
     \/ HasShow(media, id) /\ shows'[media[id].show] # shows[media[id].show]

\* C2: after every committed transition on a show/anime media (a write by the
\* worker, a scheduler task or the tracker to an existing media row or to its
\* episodes) the media's status is the derived status
C2_DerivedStatus ==
  [][\A id \in MediaIds :
       (Committed(id) /\ HasShow(media, id)) =>
          media'[id].status = DerivedStatus(shows'[media'[id].show])]_vars

\* the progress section 3 of the specification derives from the episodes
DerivedProgress(show) ==
  LET counted == Count(show.eps, {"pending", "downloading", "downloaded"})
  IN IF counted > 0 THEN Frac(Count(show.eps, {"downloaded"}), counted) ELSE <<0, 1>>

\* C3: after every committed transition on a show/anime media its progress is
\* downloaded episodes / episodes neither skipped nor tba, and 0 when there is
\* no such episode
C3_DerivedProgress ==
  [][\A id \in MediaIds :
       (Committed(id) /\ HasShow(media, id)) =>
          media'[id].prog = DerivedProgress(shows'[media'[id].show])]_vars

\* every episode the show has is downloaded
AllDownloaded(show) ==
  /\ \E e \in Eps : show.eps[e] # "none"
  /\ \A e \in Eps : show.eps[e] \in {"none", "downloaded"}

\* C4: in every reachable state completed_at is non-null exactly when the media
\* is a movie in status downloaded or a show/anime all of whose episodes are
\* downloaded
C4_CompletedAt ==
  \A id \in MediaIds :
    Exists(media, id) =>
      (media[id].done <=>
         IF media[id].type = "movie" THEN media[id].status = "downloaded"
         ELSE HasShow(media, id) /\ AllDownloaded(GetTVShowByMediaID(media, shows, id)))

\* C5: after any successful AddMedia a movie has a null tv_show_id and a
\* tvshow/anime a non-null one
C5_TvShowId ==
  \A id \in MediaIds :
    Exists(media, id) => (media[id].show = 0 <=> media[id].type = "movie")

\* the transition graph of section 4.F
Edges ==
  {<<"pending", "searching">>, <<"pending", "downloading">>,
   <<"searching", "downloading">>, <<"pending", "failed">>,
   <<"searching", "failed">>, <<"downloading", "failed">>,
   <<"downloading", "downloaded">>, <<"downloaded", "archived">>,
   <<"pending", "monitoring">>, <<"monitoring", "pending">>,
   <<"failed", "pending">>}

\* the step adds the torrent of a release of media id to the download client
TorrentAdded(id) ==
  \E e \in 0..MaxEpisodes : torrents[<<id, e>>] = "absent" /\ torrents'[<<id, e>>] = "active"

\* C6: every change of a media's status made by the queue worker, a scheduler
\* task or the tracker is an edge of the transition graph, and a change to
\* downloading comes with a torrent added to the download client
C6_TransitionGraph ==
  [][Automatic =>
       \A id \in MediaIds :
         (Exists(media, id) /\ media'[id].status # media[id].status) =>
            /\ <<media[id].status, media'[id].status>> \in Edges
            /\ media'[id].status = "downloading" => TorrentAdded(id)]_vars

\* C7: the worker receives the values in the order they were sent (a send
\* appends, a receive takes the oldest value), and it receives only after the
\* acquisition routine of the value before has returned
C7_FifoSerial ==
  [][/\ queue' # queue =>
          \/ \E id \in MediaIds, t \in MediaTypes : queue' = Append(queue, QueueItem(id, t))
          \/ /\ queue # <<>>
             /\ queue' = Tail(queue)
             /\ wItem' = Head(queue)
             /\ wpc = "idle"
     /\ (wItem' # wItem \/ (wpc = "idle" /\ wpc' # "idle")) =>
          /\ wpc = "idle"
          /\ queue # <<>>
          /\ wItem' = Head(queue)
          /\ queue' = Tail(queue)]_vars

\* an acquisition routine runs while a value sent after its own waits
C7_Witness ==
  /\ wpc # "idle"
  /\ Len(queue) = QueueCap
  /\ \E i \in 1..Len(queue) : queue[i].id # wItem.id
  /\ queue[1].id # queue[Len(queue)].id

\* C8: an enqueue by process-pending or retry-failed never blocks: a task that
\* has a value to send can take its next step whatever the queue holds
C8_EnqueueNeverBlocks ==
  ~crashed =>
     /\ ppItems # <<>> => ENABLED PendingSend
     /\ (rfItems # <<>> /\ rfPc = "send") => ENABLED RetrySend

\* C9: whatever item fails (a show/anime without show aggregate or without
\* metadata provider), the process keeps running
C9_ProcessKeepsRunning == ~crashed

\* C10: an episode is flipped to downloaded only when its own torrent has
\* completed
C10_OwnTorrentCompleted ==
  [][\A id \in MediaIds, e \in Eps :
       (/\ HasShow(media, id)
        /\ shows[media[id].show].eps[e] # "downloaded"
        /\ shows'[media[id].show].eps[e] = "downloaded")
       => torrents[<<id, e>>] = "complete"]_vars


\* the step is the turn of the check-new-episodes tick on media id that ends
\* the tick and promotes episode e from tba to pending while the media is
\* monitoring
Promotes(id, e) ==
  /\ CheckNew
  /\ ceItems # <<>>
  /\ Head(ceItems).id = id
  /\ ceItems' = <<>>
  /\ HasShow(media, id)
  /\ media[id].status = "monitoring"
  /\ shows[media[id].show].eps[e] = "tba"
  /\ shows'[media[id].show].eps[e] = "pending"

\* C11: when the check-new-episodes tick that promoted a tba episode of a
\* monitoring media ends, the episode is pending and the media is pending
C11_PromotionLeavesPending ==
  [][\A id \in MediaIds, e \in Eps :
       Promotes(id, e) =>
          /\ shows'[media[id].show].eps[e] = "pending"
          /\ media'[id].status = "pending"]_vars


C13_EpisodeAttemptOrder ==
  [][/\ (WorkerTake /\ wpc' = "show") =>
          /\ wTodo' = {e \in Eps :
                         GetTVShowByMediaID(media, shows, wItem'.id).eps[e] = "pending"}
          /\ wStarted' = 0
     /\ \A o \in Outcomes :
          (WorkerEpisode(o) /\ wpc' = "show") =>
             /\ \E e \in wTodo :
                  /\ wTodo' = wTodo \ {e}
                  /\ \A x \in wTodo' : e < x
                  /\ \A x \in Eps \ {e} :
                       /\ torrents'[<<wItem.id, x>>] = torrents[<<wItem.id, x>>]
                       /\ HasShow(media, wItem.id) =>
                            shows'[media[wItem.id].show].eps[x]
                              = shows[media[wItem.id].show].eps[x]
             /\ wStarted < cfg.maxConcurrent
             /\ torrents' # torrents => wStarted' = wStarted + 1
     /\ wStarted' <= cfg.maxConcurrent]_vars

\* an attempt has started max_concurrent_downloads downloads and pending
\* episodes of the show are left
C13_Witness ==
  /\ wpc = "show"
  /\ wStarted = cfg.maxConcurrent
  /\ wTodo # {}
  /\ \E e \in Eps : torrents[<<wItem.id, e>>] = "active" /\ \A x \in wTodo : e < x

\* the media ids of a sequence of queue values
ItemIds(items) == {items[i].id : i \in 1..Len(items)}

LeavesFailed(id) ==
  /\ Exists(media, id)
  /\ media[id].status = "failed"
  /\ ~media[id].auto
  /\ Exists(media', id)
  /\ media'[id].status # "failed"

\* a step of RetryMedia for media id, or of the worker on a queue value of id
ThroughRetryMedia(id) ==
  \/ RetryMedia(id)
  \/ Worker /\ wItem'.id = id

C16_CleanupArchives ==
  (/\ clItems # <<>>
   /\ ~crashed
   /\ cfg.keepRatio
   /\ Head(clItems).hash # NoHash
   /\ media[Head(clItems).id].status = "downloaded"
   /\ torrents[Head(clItems).hash] # "absent")
  => ENABLED (/\ CleanupStep(TRUE, FALSE, TRUE, TRUE)
              /\ media'[Head(clItems).id].status = "archived")

\* C17: when the tracker comes to a downloading media with a torrent handle
\* and the client fails to answer the poll, the tick's step leaves the media
\* row (status, progress, handle) as it was
C17_PollFailureLeavesMedia ==
  (/\ trItems # <<>>
   /\ ~crashed
   /\ Head(trItems).hash # NoHash
   /\ media[Head(trItems).id].status = "downloading")
  => ENABLED (/\ TrackerPoll(FALSE)
              /\ media'[Head(trItems).id] = media[Head(trItems).id])

\* C18: when the tracker comes to a downloading movie whose torrent is
\* complete, the step has an outcome (the post-processing it starts fails
\* hard) that leaves the movie in downloading, for the next tick to detect
\* the completion again
C18_FailedPostProcessingKeepsDownloading ==
  (/\ trItems # <<>>
   /\ ~crashed
   /\ Head(trItems).type = "movie"
   /\ Head(trItems).hash # NoHash
   /\ media[Head(trItems).id].status = "downloading"
   /\ torrents[Head(trItems).hash] = "complete")
  => ENABLED (/\ TrackerPoll(TRUE)
              /\ media'[Head(trItems).id].status = "downloading")

\* C19: a step that deletes a media linked to a show leaves no season and no
\* episode of that show
C19_DeleteRemovesShowRows ==
  [][\A id \in MediaIds :
       (Exists(media, id) /\ ~Exists(media', id) /\ media[id].show # 0)
         => ~SeasonExists(shows'[media[id].show])]_vars

\* C20: the library never holds two rows for the same movie: the second
\* AddMedia for it fails on the duplicate key
C20_OneRowPerMovie ==
  \A a, b \in MediaIds :
    (/\ media[a].type = "movie"
     /\ media[b].type = "movie"
     /\ media[a].title = media[b].title) => a = b

\* C21: the library never holds two rows of type tvshow, or two of type
\* anime, with the same (title, year): Create refuses the second
C21_OneRowPerShowTitle ==
  \A a, b \in MediaIds :
    (/\ media[a].type \in ShowTypes
     /\ media[a].type = media[b].type
     /\ media[a].title # 0
     /\ media[a].title = media[b].title) => a = b

\* C22: the HTTP server is shut down, and the process ends, only once the
\* search queue has been drained and the acquisition in flight has finished
C22_DrainedBeforeExit ==
  down = "exited" => (queue = <<>> /\ wpc = "idle")

\* C23: no show holds two episode rows with the same number in a season
C23_EpisodeNumbersUnique ==
  \A s \in ShowIds : \A e \in Eps : shows[s].rows[e] <= 1

\* C24: whenever the RSS sweep holds a feed item and a media it read has a
\* pending episode, the item that names this episode and passes the title,
\* quality and reject stages starts the episode's download once the client
\* takes the torrent, whatever min_seeders is
C24_FeedItemStartsDownload ==
  \A id \in MediaIds, e \in Eps :
    (/\ ~crashed
     /\ rssLeft > 0
     /\ id \in rssMedia
     /\ HasShow(media, id)
     /\ shows[media[id].show].eps[e] = "pending")
    => ENABLED (/\ RssItem(id, e, TRUE)
                /\ shows'[media[id].show].eps[e] = "downloading")

\* C25: the list FilterAndScoreTorrents returns is in descending score, and
\* two survivors of equal score that differ stand in their input order, for
\* lists of any length
C25_TiesKeepInputOrder ==
  call.fn = "FilterAndScoreTorrents" =>
    /\ Sorted(call.in, call.out)
    /\ \A a, b \in 1..Len(call.out) :
         (/\ a < b
          /\ call.in[call.out[a]] # call.in[call.out[b]]
          /\ Score(call.in[call.out[a]]) = Score(call.in[call.out[b]]))
         => call.out[a] < call.out[b]

\* C26: the episode-number stage keeps a title only if the title carries
\* the tag of the requested season and episode with no further digit after
\* the episode number (the first two patterns), the other four patterns
\* accepting nothing more
C26_OnlyRequestedEpisode ==
  (call.fn = "filterByEpisodeNumber" /\ call.kept) =>
    \E k \in 1..2 :
      MatchString(EpisodePatterns(call.season, call.episode)[k], call.title)

\* C27: when some search term yields a meaningful word, the series-name
\* stage keeps a title only if for one of the terms the title contains the
\* term's meaningful words (the term having one), the term itself or its
\* CamelCase-spaced form; a term without a meaningful word lets nothing pass
C27_UnrelatedTitleDropped ==
  (/\ call.fn = "filterBySeriesName"
   /\ call.kept
   /\ \E k \in 1..Len(call.terms) : extractMeaningfulWords(call.terms[k]) # <<>>)
  => \E k \in 1..Len(call.terms) :
       \/ /\ extractMeaningfulWords(call.terms[k]) # <<>>
          /\ AllWordsFound(ToLower(call.title), call.terms[k])
       \/ TermFound(ToLower(call.title), call.terms[k])
       \/ SpacedFound(ToLower(call.title), call.terms[k])

\* C28: the quality stage keeps a title iff some of the seven resolutions
\* 360p to 4320p has a synonym in the title and the highest rank among those
\* that do lies within [rank(min_quality), rank(max_quality)]
C28_HighestResolutionInWindow ==
  call.fn = "filterByQuality" =>
    LET found == {res \in Resolutions : RESOLUTION_SYNONYMS[res] \cap call.title # {}}
    IN call.kept <=>
         /\ found # {}
         /\ \E res \in found :
              /\ \A other \in found : RESOLUTION_RANK[other] <= RESOLUTION_RANK[res]
              /\ RESOLUTION_RANK[res] >= RESOLUTION_RANK[call.min]
              /\ RESOLUTION_RANK[res] <= RESOLUTION_RANK[call.max]

\* C29: for each file the methods tried are a prefix of the configured list,
\* in its order, and a file that a method has placed has had no later method
\* tried on it; when every method has failed for a file, ProcessDownload has
\* returned an error with no rename, no subtitle fetch and no notification
C29_FallbackInOrder ==
  call.fn = "ProcessDownload" =>
    /\ \A f \in 1..call.files :
         /\ Len(call.tried[f]) <= Len(call.methods)
         /\ call.tried[f] = SubSeq(call.methods, 1, Len(call.tried[f]))
         /\ call.placed[f] # 0 => call.placed[f] = Len(call.tried[f])
    /\ (\E f \in 1..call.files :
          call.placed[f] = 0 /\ call.tried[f] = call.methods)
       => /\ call.result = "error"
          /\ ~call.renamed /\ ~call.subtitles /\ ~call.notified

\* the second method placed the first file, and both failed for the second
C29_Witness ==
  /\ call.fn = "ProcessDownload"
  /\ call.files = 2
  /\ Len(call.methods) = 2
  /\ call.placed[1] = 2
  /\ call.placed[2] = 0
  /\ call.tried[2] = call.methods
  /\ call.result = "error"

\* C30: in the folder name and in the file name the post-processor builds,
\* the part that comes from the media title holds no character of
\* <>:"/\|?* and does not end in a space or a dot
C30_PathsSanitized ==
  call.fn = "renameFiles" =>
    \A part \in {call.folder[1], call.file[1]} :
      /\ \A k \in 1..Len(part) : part[k] \notin InvalidChars
      /\ part # <<>> => part[Len(part)] \notin {" ", "."}

\* C31: when waitForFile has returned, it has returned true iff the path was
\* there at some instant of the window, the instant of the call included
C31_TrueIffSeen ==
  (call.fn = "waitForFile" /\ call.result # "none") =>
    (call.result = "true" <=> call.seen)

\* C32: in every state another task can read, a call of
\* UpdateEpisodeDownloadInfo with hash and name has written the episode's
\* status and the media's handle and status both, or neither
C32_BothWritesOrNone ==
  call.fn = "UpdateEpisodeDownloadInfo" =>
    (shows[media[call.id].show].eps[call.e] = "downloading"
     <=> (media[call.id].hash = call.hash /\ media[call.id].status = "downloading"))

\* C33: a turn of the tracker that finds the torrent of a media not yet
\* completed leaves the media's status, torrent handle and completed_at as
\* they are
C33_ProgressWriteOnly ==
  [][(/\ TrackerPoll(TRUE)
      /\ Head(trItems).hash # NoHash
      /\ torrents[Head(trItems).hash] # "complete"
      /\ Exists(media, Head(trItems).id))
     => LET id == Head(trItems).id
        IN /\ media'[id].status = media[id].status
           /\ media'[id].hash = media[id].hash
           /\ media'[id].done = media[id].done]_vars

\* C34: after every call of FilterAndScoreTorrents the initial count is the
\* sum of the five drop counters and the final count
C34_CountersAddUp ==
  call.fn = "FilterStats" =>
    call.stats.InitialCount =
      call.stats.RejectPatterns + call.stats.EpisodeNumber + call.stats.SeriesName
      + call.stats.Quality + call.stats.MinSeeders + call.stats.FinalCount

\* of two results of a show one was dropped by the name filter and one passed
C34_Witness ==
  /\ call.fn = "FilterStats"
  /\ call.tv
  /\ call.stats.InitialCount = 2
  /\ call.stats.SeriesName = 1
  /\ call.stats.FinalCount = 1

\* episode e of the auto_download show of media id is pending
AutoPending(id, e) ==
  /\ HasShow(media, id)
  /\ media[id].auto
  /\ shows[media[id].show].eps[e] = "pending"

\* the queue worker's next step is its search for episode e of media id
Attempting(id, e) ==
  /\ wpc = "show"
  /\ wItem.id = id
  /\ wTodo # {}
  /\ e = FirstFree(wTodo)
  /\ wStarted < cfg.maxConcurrent

\* C35: under fair scheduling, an episode that is pending on an auto_download
\* show or anime is eventually the one the queue worker searches for (unless
\* the process has gone down by then)
C35_PendingEventuallyAttempted ==
  \A id \in MediaIds, e \in Eps :
    AutoPending(id, e) ~> (crashed \/ Attempting(id, e))

\* C36: no step hands the download client, with success, a torrent for a
\* movie whose earlier torrent the client still holds, or for an episode that
\* is downloading or downloaded
C36_NoSecondDownload ==
  [][/\ WorkerMovie("added") => torrents[<<wItem.id, 0>>] = "absent"
     /\ (WorkerEpisode("added") /\ wTodo' # wTodo)
        => GetTVShowByMediaID(media, shows, wItem.id).eps[FirstFree(wTodo)]
             \notin {"downloading", "downloaded"}
     /\ \A id \in MediaIds, e \in Eps :
          (RssItem(id, e, TRUE) /\ torrents' # torrents)
          => GetTVShowByMediaID(media, shows, id).eps[e] \notin {"downloading", "downloaded"}]_vars

\* C37: the tracker starts ProcessDownload at most once for a torrent: a turn
\* of its loop starts no goroutine for a torrent one was started for before
C37_OncePerTorrent ==
  [][\A ok \in BOOLEAN :
       TrackerPollSpawns(ok) =>
         \A r \in TrackerSpawns(Head(trItems), ok) : r.hash \notin {x.hash : x \in Runs}]_vars

\* C38: the files renameFiles has renamed in one call bear pairwise distinct
\* new names, and each of them is still in the folder under its new name
C38_RenamedApart ==
  call.fn = "renameFiles" =>
    \A i \in call.renamed :
      /\ call.dir[NewName(call.files[i])] = i
      /\ \A j \in call.renamed \ {i} : NewName(call.files[i]) # NewName(call.files[j])

\* C39: an AddMedia that creates no media row leaves no row of a show,
\* season or episode behind: the shows are as they were before the call
C39_FailedAddLeavesNothing ==
  [][(AddTitled(MaxMedia) /\ media' = media) => shows' = shows]_vars

\* C40: AddMedia creates the media row in status pending, and each episode it
\* creates in skipped when the episode is before the start episode, else in
\* tba when its air date is in the future, else in pending; no episode is
\* created downloading or downloaded
C40_CreatedStatuses ==
  [][\A id \in MediaIds :
       (AddTitled(MaxMedia) /\ media[id] = NoMedia /\ media'[id] # NoMedia) =>
         /\ media'[id].status = "pending"
         /\ media'[id].show # 0 =>
              LET created == shows'[media'[id].show]
              IN /\ \A e \in Eps : created.eps[e] \in {"none", "skipped", "tba", "pending"}
                 /\ \A air \in [Eps -> {"none", "aired", "future"}], startEpisode \in Eps :
                      AddMedia(media'[id].type, media'[id].title, media'[id].auto, "found",
                               created.status, air, {}, startEpisode)
                      => \A e \in Eps :
                           air[e] # "none" =>
                             created.eps[e] = IF e < startEpisode THEN "skipped"
                                              ELSE IF air[e] = "future" THEN "tba"
                                              ELSE "pending"]_vars

\* a show is there as AddMedia created it, with an episode before the start
\* episode and an episode that airs later
C40_Witness ==
  \E id \in MediaIds :
    /\ HasShow(media, id)
    /\ media[id].status = "pending"
    /\ GetTVShowByMediaID(media, shows, id).eps[1] = "skipped"
    /\ GetTVShowByMediaID(media, shows, id).eps[2] = "tba"
=============================================================================
